---- MODULE Spec2Model ----
(***************************************************************************)
(* Model of app.py (Welcome Real Estate AI): the cached dataset loader,    *)
(* the year / municipality extraction, the distinct-count aggregation and  *)
(* the Streamlit script run main().                                        *)
(*                                                                         *)
(* Text is a sequence of one-character strings.  Hebrew letters are        *)
(* written letter for letter in Latin: "tl abyb" is the 7 characters of    *)
(* the literal at app.py:141 and "tl abyb ypw" the 11 characters of the    *)
(* literal at app.py:142.  A value that is not text (Python None, a        *)
(* pandas NaN, a key absent from a record) is a one-element sequence       *)
(* holding a marker that is not a character, so it never equals a text.    *)
(*                                                                         *)
(* pandas is modelled as pandas 2.x behaves on object columns:             *)
(* astype(str) turns None into the text "None" and NaN into "nan".         *)
(***************************************************************************)
EXTENDS Integers, Sequences, FiniteSets, TLC

VARIABLES
    cache,       \* st.cache_data entry of load_dataset(): NoValue or a dataset
    fetchCount,  \* number of requests.get calls issued so far
    loadErrors,  \* number of st.error displays (runs whose load failed)
    messages,    \* st.session_state.messages
    runs,        \* number of script runs of main() so far
    pc,          \* where the last operation ended
    payload,     \* the remote response handed to the last requests.get
    df,          \* the dataset in hand (main's df / the function argument)
    question,    \* user_input / the question argument
    year,        \* local of answer_question
    city,        \* local of answer_question
    ret          \* result of the last operation: [exc, value]

vars == <<cache, fetchCount, loadErrors, messages, runs, pc, payload, df,
          question, year, city, ret>>

----------------------------------------------------------------------------
(* Bounds *)

MaxRecords == 3     \* records in a remote payload
MaxYearLen == 5     \* length of the texts given to extract_year
MaxRuns == 3        \* script runs of main()

----------------------------------------------------------------------------
(* Values that are not text *)

None == <<"<None>">>        \* Python None
NaN == <<"<NaN>">>          \* pandas missing value
Absent == <<"<absent>">>    \* key not present in a record / column not in df
NoValue == [novalue |-> TRUE] \* nothing cached, nothing computed (a record,
                            \* as datasets and answers are)

IsNA(v) == v \in {None, NaN}

----------------------------------------------------------------------------
(* Text helpers *)

Digits == {"0", "1", "2", "3", "4", "5", "6", "7", "8", "9"}
Whitespace == {" "}

\* Python `sub in s`
Contains(s, sub) ==
    \E i \in 0..(Len(s) - Len(sub)) : SubSeq(s, i + 1, i + Len(sub)) = sub

RECURSIVE LStrip(_)
LStrip(s) ==
    IF s # <<>> /\ Head(s) \in Whitespace THEN LStrip(Tail(s)) ELSE s

RECURSIVE RStrip(_)
RStrip(s) ==
    IF s # <<>> /\ s[Len(s)] \in Whitespace
    THEN RStrip(SubSeq(s, 1, Len(s) - 1))
    ELSE s

\* str.strip()
Strip(s) == RStrip(LStrip(s))

\* str(v) / Series.astype(str) on one cell
AsTypeStr(v) ==
    IF v = None THEN <<"N", "o", "n", "e">>
    ELSE IF v = NaN THEN <<"n", "a", "n">>
    ELSE v

----------------------------------------------------------------------------
(* Regular-expression search, for the patterns the program can build from  *)
(* the characters of the model's texts: ordinary characters, "." (any      *)
(* character) and "(" ")" (a group).  A group without a quantifier matches *)
(* what its content matches, so the pattern without its parentheses is     *)
(* the same search; parentheses that do not nest make re.compile raise.    *)

RECURSIVE ParenDepth(_, _)
\* nesting depth after reading s starting at depth d; -1 when ")" has no "("
ParenDepth(s, d) ==
    IF d < 0 \/ s = <<>> THEN d
    ELSE IF Head(s) = "(" THEN ParenDepth(Tail(s), d + 1)
    ELSE IF Head(s) = ")" THEN ParenDepth(Tail(s), d - 1)
    ELSE ParenDepth(Tail(s), d)

\* re.compile(pat) raises re.error
RegexInvalid(pat) == ParenDepth(pat, 0) # 0

IsNotParen(c) == c \notin {"(", ")"}

\* re.search(pat, text) is not None, for a pattern that compiles
RegexSearch(pat, text) ==
    LET p == SelectSeq(pat, IsNotParen)
    IN \E i \in 0..(Len(text) - Len(p)) :
          \A k \in 1..Len(p) : p[k] = "." \/ text[i + k] = p[k]

\* one cell of Series.str.contains(pat, na=False)
StrContains(cell, pat) == IF IsNA(cell) THEN FALSE ELSE RegexSearch(pat, cell)

----------------------------------------------------------------------------
(* Datasets: pandas DataFrames *)

TextColumns == <<"Yeshuv", "ShemMitcham", "TaarichHachraza">>
ColumnNames == {"Yeshuv", "ShemMitcham", "TaarichHachraza", "MisparMitham"}

\* pd.DataFrame.from_records(records): the columns are the keys that occur,
\* a record lacking a key of another record gets NaN there
FromRecords(records) ==
    LET cols == {c \in ColumnNames :
                    \E i \in 1..Len(records) : records[i][c] # Absent}
    IN [columns |-> cols,
        rows |-> [i \in 1..Len(records) |->
                    [c \in ColumnNames |->
                        IF c \notin cols THEN Absent
                        ELSE IF records[i][c] = Absent THEN NaN
                        ELSE records[i][c]]]]

\* df[col] = df[col].astype(str).str.strip()
NormaliseColumn(d, col) ==
    IF col \notin d.columns THEN d
    ELSE [d EXCEPT !.rows =
            [i \in 1..Len(d.rows) |->
                [d.rows[i] EXCEPT ![col] = Strip(AsTypeStr(d.rows[i][col]))]]]

RECURSIVE NormaliseColumns(_, _)
\* the loop over the textual columns
NormaliseColumns(d, cols) ==
    IF cols = <<>> THEN d
    ELSE NormaliseColumns(NormaliseColumn(d, Head(cols)), Tail(cols))

Raise(e) == [exc |-> e, value |-> NoValue]
NoExc == "no exception"
Return(v) == [exc |-> NoExc, value |-> v]

\* The remote answers of one requests.get: the call itself fails, the status
\* is not 2xx, the body is not JSON, or the body is JSON of some shape.
ResponseKinds == {"conn_error", "timeout", "http_error", "bad_json",
                  "success_false", "no_result", "envelope", "list"}

\* load_dataset as it would be if a success=false payload were taken for an
\* empty table
load_dataset_swallow(resp) ==
    IF resp.kind = "conn_error" THEN Raise("ConnectionError")
    ELSE IF resp.kind = "timeout" THEN Raise("Timeout")
    ELSE IF resp.kind = "http_error" THEN Raise("HTTPError")
    ELSE IF resp.kind = "bad_json" THEN Raise("JSONDecodeError")
    ELSE IF resp.kind = "list" THEN Raise("AttributeError")
    ELSE IF resp.kind = "no_result" THEN Raise("KeyError")
    ELSE Return(NormaliseColumns(FromRecords(resp.records), TextColumns))

\* body of load_dataset (without the cache)
load_dataset(resp) ==
    IF resp.kind = "conn_error" THEN Raise("ConnectionError")
    ELSE IF resp.kind = "timeout" THEN Raise("Timeout")
    ELSE IF resp.kind = "http_error" THEN Raise("HTTPError")
    ELSE IF resp.kind = "bad_json" THEN Raise("JSONDecodeError")
    ELSE IF resp.kind = "list" THEN Raise("AttributeError")
    ELSE IF resp.kind = "success_false" THEN Raise("ValueError")
    ELSE IF resp.kind = "no_result" THEN Raise("KeyError")
    ELSE Return(NormaliseColumns(FromRecords(resp.records), TextColumns))

\* the loader as it would be without the cache decorator
CachedLoadAlwaysMiss(c, resp) ==
    LET r == load_dataset(resp)
    IN [result |-> r,
        cache |-> IF r.exc = NoExc THEN r.value ELSE c,
        fetches |-> 1]

\* load_dataset() behind @st.cache_data: a hit returns the stored dataset
\* without running the body; a miss runs it and stores what it returns,
\* an exception stores nothing.
CachedLoad(c, resp) ==
    IF c # NoValue
    THEN [result |-> Return(c), cache |-> c, fetches |-> 0]
    ELSE LET r == load_dataset(resp)
         IN [result |-> r,
             cache |-> IF r.exc = NoExc THEN r.value ELSE NoValue,
             fetches |-> 1]

----------------------------------------------------------------------------
(* Query interpretation *)

\* the pattern without its lookbehind
YearMatchAtNoLookbehind(q, i) ==
    /\ i + 4 <= Len(q)
    /\ \/ (q[i + 1] = "2" /\ q[i + 2] = "0")
       \/ (q[i + 1] = "1" /\ q[i + 2] = "9")
    /\ q[i + 3] \in Digits
    /\ q[i + 4] \in Digits
    /\ (i + 4 = Len(q) \/ q[i + 5] \notin Digits)

\* the pattern (?<!\d)(20\d{2}|19\d{2})(?!\d) matches at offset i (0-based)
YearMatchAt(q, i) ==
    /\ i + 4 <= Len(q)
    /\ (i = 0 \/ q[i] \notin Digits)
    /\ \/ (q[i + 1] = "2" /\ q[i + 2] = "0")
       \/ (q[i + 1] = "1" /\ q[i + 2] = "9")
    /\ q[i + 3] \in Digits
    /\ q[i + 4] \in Digits
    /\ (i + 4 = Len(q) \/ q[i + 5] \notin Digits)

RECURSIVE YearSearch(_, _)
\* re.search scans the offsets from the left
YearSearch(q, i) ==
    IF i + 4 > Len(q) THEN None
    ELSE IF YearMatchAt(q, i) THEN SubSeq(q, i + 1, i + 4)
    ELSE YearSearch(q, i + 1)

extract_year(q) == YearSearch(q, 0)

RECURSIVE Unique(_, _)
\* Series.unique(): the values in order of first appearance
Unique(s, seen) ==
    IF s = <<>> THEN <<>>
    ELSE IF Head(s) \in seen THEN Unique(Tail(s), seen)
    ELSE <<Head(s)>> \o Unique(Tail(s), seen \cup {Head(s)})

IsNotNA(v) == ~IsNA(v)

RECURSIVE CityScanLast(_, _)
\* the loop as it would be if a later match replaced an earlier one
CityScanLast(names, q) ==
    IF names = <<>> THEN None
    ELSE LET name == Strip(AsTypeStr(Head(names)))
             later == CityScanLast(Tail(names), q)
         IN IF later # None THEN later
            ELSE IF name # <<>> /\ Contains(q, name) THEN name
            ELSE None

RECURSIVE CityScan(_, _)
\* the for loop of extract_city
CityScan(names, q) ==
    IF names = <<>> THEN None
    ELSE LET name == Strip(AsTypeStr(Head(names)))
         IN IF name = <<>> THEN CityScan(Tail(names), q)
            ELSE IF Contains(q, name) THEN name
            ELSE CityScan(Tail(names), q)

extract_city(q, d) ==
    IF "Yeshuv" \notin d.columns THEN None
    ELSE LET col == [i \in 1..Len(d.rows) |-> d.rows[i]["Yeshuv"]]
         IN CityScan(Unique(SelectSeq(col, IsNotNA), {}), q)

----------------------------------------------------------------------------
(* Aggregation and answer *)

TelAviv == <<"t", "l", " ", "a", "b", "y", "b">>
TelAvivYafo == TelAviv \o <<" ", "y", "p", "w">>

\* the three message templates
Fallback == [template |-> "fallback"]
ZeroAnswer(y, c) == [template |-> "zero", year |-> y, city |-> c]
CountAnswer(y, c, n) == [template |-> "count", year |-> y, city |-> c, n |-> n]

\* question = question or ""
OrEmpty(q) == IF q = None THEN <<>> ELSE q

\* the Tel Aviv rule as it would be if it were tried before the scan
resolve_city_rule_first(q, d) ==
    IF Contains(q, TelAviv) THEN TelAvivYafo ELSE extract_city(q, d)

\* city after the Tel Aviv rule
resolve_city(q, d) ==
    LET c == extract_city(q, d)
    IN IF c = None /\ Contains(q, TelAviv) THEN TelAvivYafo ELSE c

\* subset["MisparMitham"].nunique(): distinct values, missing ones dropped
NUnique(d, mask) ==
    Cardinality({d.rows[i]["MisparMitham"] : i \in mask}
                    \ {None, NaN})

\* the branch taken when year and city are both set
count_answer(y, c, d) ==
    IF "Yeshuv" \notin d.columns THEN Raise("KeyError")
    ELSE IF RegexInvalid(c) THEN Raise("re.error")
    ELSE IF "TaarichHachraza" \notin d.columns THEN Raise("KeyError")
    ELSE IF RegexInvalid(y) THEN Raise("re.error")
    ELSE IF "MisparMitham" \notin d.columns THEN Raise("KeyError")
    ELSE LET mask == {i \in 1..Len(d.rows) :
                         /\ StrContains(d.rows[i]["Yeshuv"], c)
                         /\ StrContains(d.rows[i]["TaarichHachraza"], y)}
             num_complexes == NUnique(d, mask)
         IN IF num_complexes = 0 THEN Return(ZeroAnswer(y, c))
            ELSE Return(CountAnswer(y, c, num_complexes))

\* the test as it would be with `or`
BothSetEither(y, c) == (y # None /\ y # <<>>) \/ (c # None /\ c # <<>>)

\* if year and city: (both are None or a non-empty text)
BothSet(y, c) == y # None /\ y # <<>> /\ c # None /\ c # <<>>

answer_question(q, d) ==
    LET qq == OrEmpty(q)
        y == extract_year(qq)
        c == resolve_city(qq, d)
    IN IF BothSet(y, c) THEN count_answer(y, c, d) ELSE Return(Fallback)

----------------------------------------------------------------------------
(* Inputs *)

Haifa == <<"x", "y", "p", "h">>
DotName == <<"a", ".", "b">>
DotOther == <<"a", "x", "b">>
ParenName == <<"(", "a">>
Y2025 == <<"2", "0", "2", "5">>
Y2024 == <<"2", "0", "2", "4">>
Sp == <<" ">>

Rec(y, s, t, m) ==
    [Yeshuv |-> y, ShemMitcham |-> s, TaarichHachraza |-> t, MisparMitham |-> m]

\* records of the remote table, as the JSON carries them
RecordPool ==
    { Rec(Sp \o TelAvivYafo \o Sp, <<"n">>, Y2025 \o Sp, <<"A">>),
      Rec(TelAvivYafo, None, <<"1", "/">> \o Y2025, <<"B">>),
      Rec(Haifa, <<"n">>, Y2025, <<"C">>),
      Rec(TelAviv, <<"n">>, Y2024, <<"A">>),
      Rec(DotName, <<"n">>, Y2025, <<"A">>),
      Rec(DotOther, <<"n">>, Y2025, <<"B">>),
      Rec(ParenName, <<"n">>, Y2025, <<"C">>),
      Rec(None, Absent, Absent, None),
      Rec(Absent, <<"n">>, Y2025, Absent) }

RecordLists == UNION {[1..n -> RecordPool] : n \in 0..MaxRecords}

FailureKinds == ResponseKinds \ {"envelope", "list"}

Responses ==
    [kind : FailureKinds, records : {<<>>}]
        \cup [kind : {"envelope", "list"}, records : RecordLists]

CityParts ==
    { <<>>, TelAviv, TelAvivYafo, Haifa, Haifa \o Sp \o TelAviv,
      DotName, ParenName, <<"N", "o", "n", "e">> }
YearParts == { <<>>, Y2025, <<"1">> \o Y2025 }

Questions == {c \o Sp \o y : c \in CityParts, y \in YearParts} \cup {None}

YearAlphabet == {"0", "1", "2", "5", "9", "a"}
YearTexts == UNION {[1..n -> YearAlphabet] : n \in 0..MaxYearLen}

\* what the remote and the user do in the script runs
UIResponses ==
    [kind : FailureKinds, records : {<<>>}]
        \cup [kind : {"envelope", "list"},
              records : {<<>>,
                         <<Rec(TelAvivYafo, <<"n">>, Y2025, <<"A">>),
                           Rec(Haifa, <<"n">>, Y2025, <<"C">>)>>}]
UIInputs == {None, TelAviv \o Sp \o Y2025, Haifa \o Sp \o Y2025, Haifa}

----------------------------------------------------------------------------
(* The script run main(): one action per way a run ends *)

Init ==
    /\ cache = NoValue
    /\ fetchCount = 0
    /\ loadErrors = 0
    /\ messages = <<>>
    /\ runs = 0
    /\ pc = "start"
    /\ payload = NoValue
    /\ df = NoValue
    /\ question = None
    /\ year = None
    /\ city = None
    /\ ret = Return(NoValue)

\* the part every run shares: the cached load
RunLoad(resp, load) ==
    /\ runs < MaxRuns
    /\ load = CachedLoad(cache, resp)
    /\ runs' = runs + 1
    /\ cache' = load.cache
    /\ fetchCount' = fetchCount + load.fetches
    /\ payload' = IF load.fetches = 1 THEN resp ELSE payload

\* load_dataset raised: st.error, st.stop
MainStops(resp) ==
    \E load \in {CachedLoad(cache, resp)} :
        /\ RunLoad(resp, load)
        /\ load.result.exc # NoExc
        /\ loadErrors' = loadErrors + 1
        /\ pc' = "stopped"
        /\ ret' = load.result
        /\ df' = NoValue
        /\ question' = None
        /\ year' = None
        /\ city' = None
        /\ UNCHANGED messages

\* the page is drawn and nothing was typed
MainIdle(resp) ==
    \E load \in {CachedLoad(cache, resp)} :
        /\ RunLoad(resp, load)
        /\ load.result.exc = NoExc
        /\ pc' = "idle"
        /\ ret' = Return(NoValue)
        /\ df' = load.result.value
        /\ question' = None
        /\ year' = None
        /\ city' = None
        /\ UNCHANGED <<messages, loadErrors>>

\* a question was typed: it is appended, answered, and the answer appended;
\* an exception of answer_question ends the run after the first append
MainAnswers(resp, user_input) ==
    \E load \in {CachedLoad(cache, resp)} :
        /\ RunLoad(resp, load)
        /\ load.result.exc = NoExc
        /\ user_input # None /\ user_input # <<>>
        /\ LET d == load.result.value
               answer == answer_question(user_input, d)
               asked == Append(messages,
                               [role |-> "user", content |-> user_input])
           IN /\ df' = d
              /\ question' = user_input
              /\ year' = extract_year(OrEmpty(user_input))
              /\ city' = resolve_city(OrEmpty(user_input), d)
              /\ ret' = answer
              /\ pc' = IF answer.exc = NoExc THEN "answered" ELSE "raised"
              /\ messages' =
                    IF answer.exc = NoExc
                    THEN Append(asked, [role |-> "assistant",
                                        content |-> answer.value])
                    ELSE asked
        /\ UNCHANGED loadErrors

Next ==
    \/ \E resp \in UIResponses : MainStops(resp)
    \/ \E resp \in UIResponses : MainIdle(resp)
    \/ \E resp \in UIResponses, user_input \in UIInputs :
          MainAnswers(resp, user_input)

Spec == Init /\ [][Next]_vars

----------------------------------------------------------------------------
(* load_dataset on every remote answer *)

InitLoad ==
    /\ cache = NoValue
    /\ fetchCount = 0
    /\ loadErrors = 0
    /\ messages = <<>>
    /\ runs = 0
    /\ pc = "start"
    /\ payload \in Responses
    /\ df = NoValue
    /\ question = None
    /\ year = None
    /\ city = None
    /\ ret = Return(NoValue)

CallLoadDataset ==
    /\ pc = "start"
    /\ pc' = "load_dataset"
    /\ ret' = load_dataset(payload)
    /\ df' = load_dataset(payload).value
    /\ fetchCount' = fetchCount + 1
    /\ UNCHANGED <<cache, loadErrors, messages, runs, payload, question,
                   year, city>>

NextLoad == CallLoadDataset

SpecLoad == InitLoad /\ [][NextLoad]_vars

----------------------------------------------------------------------------
(* extract_city and answer_question on every loaded dataset and question *)

InitCore ==
    /\ cache = NoValue
    /\ fetchCount = 0
    /\ loadErrors = 0
    /\ messages = <<>>
    /\ runs = 0
    /\ pc = "start"
    /\ payload \in [kind : {"envelope"}, records : RecordLists]
    /\ df = load_dataset(payload).value
    /\ question \in Questions
    /\ year = None
    /\ city = None
    /\ ret = Return(NoValue)

CallExtractCity ==
    /\ pc = "start"
    /\ question # None
    /\ pc' = "extract_city"
    /\ ret' = Return(extract_city(question, df))
    /\ UNCHANGED <<cache, fetchCount, loadErrors, messages, runs, payload,
                   df, question, year, city>>

CallAnswerQuestion ==
    /\ pc = "start"
    /\ pc' = "answer_question"
    /\ year' = extract_year(OrEmpty(question))
    /\ city' = resolve_city(OrEmpty(question), df)
    /\ ret' = answer_question(question, df)
    /\ UNCHANGED <<cache, fetchCount, loadErrors, messages, runs, payload,
                   df, question>>

NextCore == CallExtractCity \/ CallAnswerQuestion

SpecCore == InitCore /\ [][NextCore]_vars

----------------------------------------------------------------------------
(* extract_year on every short text *)

InitYear ==
    /\ cache = NoValue
    /\ fetchCount = 0
    /\ loadErrors = 0
    /\ messages = <<>>
    /\ runs = 0
    /\ pc = "start"
    /\ payload = NoValue
    /\ df = NoValue
    /\ question \in YearTexts
    /\ year = None
    /\ city = None
    /\ ret = Return(NoValue)

CallExtractYear ==
    /\ pc = "start"
    /\ pc' = "extract_year"
    /\ ret' = Return(extract_year(question))
    /\ UNCHANGED <<cache, fetchCount, loadErrors, messages, runs, payload,
                   df, question, year, city>>

NextYear == CallExtractYear

SpecYear == InitYear /\ [][NextYear]_vars

----------------------------------------------------------------------------
(* Claims *)

NeededColumns == {"Yeshuv", "TaarichHachraza", "MisparMitham"}

\* C1: answer_question never raises: every question (None included) and
\* every dataset gives a count-based answer or the fallback answer, and when
\* year and municipality are resolved but a needed column is absent the
\* result is the zero-count answer.
C1_NeverRaises ==
    pc = "answer_question" =>
        /\ ret.exc = NoExc
        /\ ret.value.template \in {"fallback", "zero", "count"}
        /\ (year # None /\ city # None /\ ~(NeededColumns \subseteq df.columns)
              => ret.value = ZeroAnswer(year, city))

\* the number an answer reports
Reported(answer) == IF answer.template = "zero" THEN 0 ELSE answer.n

\* C3: with year and municipality resolved, the reported number is the
\* number of distinct MisparMitham values among exactly the records whose
\* Yeshuv contains the municipality and whose TaarichHachraza contains the
\* year, both as literal substrings, whatever characters the municipality
\* holds.
C3_LiteralDistinctCount ==
    (pc = "answer_question" /\ ret.exc = NoExc /\ year # None /\ city # None)
        => LET selected == {i \in 1..Len(df.rows) :
                               /\ Contains(df.rows[i]["Yeshuv"], city)
                               /\ Contains(df.rows[i]["TaarichHachraza"], year)}
               ids == {df.rows[i]["MisparMitham"] : i \in selected}
                          \ {None, NaN}
           IN Reported(ret.value) = Cardinality(ids)

\* C4: in every loaded dataset the three text fields are trimmed texts, and
\* a value that was null or missing in the payload is the empty text.
C4_Normalised ==
    (pc = "load_dataset" /\ ret.exc = NoExc)
        => \A i \in 1..Len(df.rows) :
              \A c \in {"Yeshuv", "ShemMitcham", "TaarichHachraza"}
                          \cap df.columns :
                 /\ ~IsNA(df.rows[i][c])
                 /\ Strip(df.rows[i][c]) = df.rows[i][c]
                 /\ (payload.records[i][c] \in {None, Absent}
                        => df.rows[i][c] = <<>>)

\* C5: the envelope and the bare list of the same records both load, and
\* give the same dataset.
C5_BothShapes ==
    (pc = "load_dataset" /\ payload.kind \in {"envelope", "list"})
        => /\ ret.exc = NoExc
           /\ ret.value = NormaliseColumns(FromRecords(payload.records),
                                           TextColumns)

\* C2: as long as no load has failed, the runs so far have fetched exactly
\* once, and once a dataset is cached a run issues no fetch, keeps the cache
\* and works on the cached dataset.
C2_LoadOnce ==
    /\ []((runs >= 1 /\ loadErrors = 0) => (fetchCount = 1 /\ cache # NoValue))
    /\ [][cache # NoValue =>
            /\ fetchCount' = fetchCount
            /\ cache' = cache
            /\ df' = cache]_vars

C2_Witness ==
    /\ runs >= 2
    /\ loadErrors = 0
    /\ fetchCount = 1
    /\ pc = "answered"
    /\ Len(messages) >= 4

ClaimedFailures == {"conn_error", "timeout", "http_error", "success_false"}

\* C6: a run whose fetch errors, times out, has a non-2xx status or carries
\* success=false fetches once, caches and returns no dataset, shows the
\* error and stops before any question is answered.
C6_FailedLoadSurfaced ==
    [][(fetchCount' > fetchCount /\ payload'.kind \in ClaimedFailures) =>
          /\ fetchCount' = fetchCount + 1
          /\ cache' = NoValue
          /\ df' = NoValue
          /\ ret'.exc # NoExc
          /\ loadErrors' = loadErrors + 1
          /\ pc' = "stopped"
          /\ messages' = messages]_vars

C6_Witness ==
    /\ pc = "stopped"
    /\ payload.kind = "success_false"
    /\ ret.exc = "ValueError"
    /\ runs >= 2
    /\ loadErrors = runs
    /\ fetchCount = runs

\* C7: extract_city returns the first Yeshuv value, in row order, that is not
\* empty and occurs literally in the question (not the longest one), and
\* None when there is none or the column is absent.
C7_FirstInDatasetOrder ==
    pc = "extract_city" =>
        LET Hit(i) == /\ "Yeshuv" \in df.columns
                      /\ df.rows[i]["Yeshuv"] # <<>>
                      /\ Contains(question, df.rows[i]["Yeshuv"])
            hits == {i \in 1..Len(df.rows) : Hit(i)}
        IN IF hits = {} THEN ret.value = None
           ELSE \E i \in hits :
                   /\ \A j \in hits : i <= j
                   /\ ret.value = df.rows[i]["Yeshuv"]

C7_Witness ==
    /\ pc = "extract_city"
    /\ ret.value = TelAviv
    /\ Contains(question, TelAvivYafo)
    /\ \E i \in 1..Len(df.rows) : df.rows[i]["Yeshuv"] = TelAvivYafo

C9_FallbackIff ==
    pc = "answer_question" =>
        LET q == OrEmpty(question)
            unresolved ==
                \/ extract_year(q) = None
                \/ (extract_city(q, df) = None /\ ~Contains(q, TelAviv))
        IN unresolved <=> (ret.exc = NoExc /\ ret.value = Fallback)

C9_Witness ==
    /\ pc = "answer_question"
    /\ ret = Return(Fallback)
    /\ year = None
    /\ city = Haifa
    /\ Contains(question, <<"1">> \o Y2025)

\* C10: the municipality is the one extract_city finds, even when the
\* question also holds the Tel Aviv text; it is "tl abyb ypw" when
\* extract_city finds nothing and the question holds "tl abyb"; it is absent
\* otherwise; a count-based answer names that municipality.
C10_TelAvivOnlyAsFallback ==
    pc = "answer_question" =>
        LET q == OrEmpty(question)
            found == extract_city(q, df)
        IN /\ found # None => city = found
           /\ (found = None /\ Contains(q, TelAviv)) => city = TelAvivYafo
           /\ (found = None /\ ~Contains(q, TelAviv)) => city = None
           /\ (ret.exc = NoExc /\ ret.value # Fallback)
                 => ret.value.city = city

C10_Witness ==
    /\ pc = "answer_question"
    /\ city = Haifa
    /\ Contains(question, TelAviv)
    /\ ret.exc = NoExc
    /\ ret.value.template = "count"

====
